---------------------------- MODULE Spec2Model ----------------------------
(***************************************************************************)
(* Model of leptos-declarative: the If / Then / ElseIf / Else construct    *)
(* (src/src/if_.rs) and the portal registry (src/src/portal.rs).           *)
(*                                                                         *)
(* SpecIf models one If construct: its construction (with the debug-only   *)
(* structural checks), the evaluations of the closure it returns, and      *)
(* writes to the signals the closure reads.                                *)
(* SpecPortal models one PortalProvider with its input and output sites.   *)
(***************************************************************************)
EXTENDS Integers, Sequences, FiniteSets

\* Greatest number of children given to one If construct.
MaxChildren == 4

\* Number of distinct children closures given to PortalInput sites.
NumChildren == 2

\* Greatest number of PortalOutput sites.
MaxOutputs == 2

VARIABLES
  debug_assertions,  \* cfg(debug_assertions): TRUE in a development build
  phase,             \* "init" | "built" | "live" | "failed" | "panicked"
  if_blocks,         \* the IfBlock children of the construct, in order
  signal,            \* current value of the signal given to If
  else_signal,       \* else_signal[i]: current value of the signal of block i
  deps,              \* signals the closure's effect is subscribed to (0: signal)
  pending,           \* the host has scheduled a run of the closure
  view,              \* 0: the empty view; i: the children of if_blocks[i]
  panic,             \* the failure message, NoPanic when none
  calls,             \* blocks whose children the latest run of the closure called
  seen,              \* <<signal, else_signal>> as the latest run found them
  rerun,             \* "no": at most one run so far; else whether the latest
                     \* run found the signals "same" or "changed"
  checks,            \* number of runs of run_debug_checks
  portal_ctx,        \* a PortalProvider has provided the PortalCtx
  portals,           \* the Vec of the PortalCtx: [type_id, signal] in order
  signals,           \* the RwSignals made by create_rw_signal: [value, owner]
  outputs,           \* the PortalOutput sites, in order of construction
  last_input,        \* last_input[id]: children of the latest PortalInput of id
  portal_panic,      \* the failure message of a portal site, NoPanic when none
  disposed,          \* the signals whose owning scope has been disposed
  unmounted          \* the PortalOutput sites that have been unmounted

ifVars == <<debug_assertions, phase, if_blocks, signal, else_signal, deps,
            pending, view, panic, calls, seen, rerun, checks>>

portalVars == <<portal_ctx, portals, signals, outputs, last_input,
                portal_panic, disposed, unmounted>>

vars == <<ifVars, portalVars>>

----------------------------------------------------------------------------
(* IfBlock and the children of an If *)

\* The variants of enum IfBlock.
IfBlock == {"If", "ElseIf", "Else"}

\* A child of If is an IfBlock (Then, ElseIf, Else) or any other view.
ChildKinds == IfBlock \cup {"Other"}

ChildLists == UNION {[1..n -> ChildKinds] : n \in 0..MaxChildren}

\* filter_map(View::as_transparent) and filter_map(downcast_ref::<IfBlock>):
\* children that are no IfBlock are dropped.
IsIfBlock(c) == c \in IfBlock

collect_if_blocks(children) == SelectSeq(children, IsIfBlock)

is_if(block) == block = "If"

is_else_if(block) == block = "ElseIf"

is_else(block) == block = "Else"

\* Mutant of is_true: every block that is no ElseIf counts as true.
is_true_any(block, sig) == IF is_else_if(block) THEN sig ELSE TRUE

\* IfBlock::is_true: an ElseIf reads its signal, any other block is true
\* iff it is the Else.
is_true(block, sig) == IF is_else_if(block) THEN sig ELSE is_else(block)

----------------------------------------------------------------------------
(* run_debug_checks *)

NoPanic == "none"

\* Option::unwrap on None: the panic carries no message of the crate.
UnwrapNone == "called Option::unwrap() on a None value"

ShowFirst == "<Show /> must be the first child of <If />"

ShowDup == "there must not be more than 1 <Show /> children within <If />"

ElseLast == "<Else /> must be the last child of <If />"

ElseDup == "there must not be more than 1 <Else /> children within <If />"

count_if(blocks) == Cardinality({i \in DOMAIN blocks : is_if(blocks[i])})

count_else(blocks) == Cardinality({i \in DOMAIN blocks : is_else(blocks[i])})

\* Mutant of position_else: the position of the last Else (rposition).
position_last_else(blocks) ==
  IF \E i \in DOMAIN blocks : is_else(blocks[i])
  THEN (CHOOSE i \in DOMAIN blocks :
          /\ is_else(blocks[i])
          /\ \A j \in (i + 1)..Len(blocks) : ~is_else(blocks[j])) - 1
  ELSE -1

\* Iterator::position, counted from 0; -1 stands for None.
position_else(blocks) ==
  IF \E i \in DOMAIN blocks : is_else(blocks[i])
  THEN (CHOOSE i \in DOMAIN blocks :
          /\ is_else(blocks[i])
          /\ \A j \in 1..(i - 1) : ~is_else(blocks[j])) - 1
  ELSE -1

\* Mutant of run_debug_checks: only the first assertion is made.
run_debug_checks_first_only(blocks) ==
  IF blocks = <<>> THEN UnwrapNone
  ELSE IF ~is_if(blocks[1]) THEN ShowFirst
  ELSE NoPanic

\* The message of the first assertion that fails, NoPanic when all pass.
run_debug_checks(blocks) ==
  IF blocks = <<>> THEN UnwrapNone
  ELSE IF ~is_if(blocks[1]) THEN ShowFirst
  ELSE IF count_if(blocks) # 1 THEN ShowDup
  ELSE IF position_else(blocks) # -1 /\ position_else(blocks) # Len(blocks) - 1
       THEN ElseLast
  ELSE IF count_else(blocks) # 1 THEN ElseDup
  ELSE NoPanic

----------------------------------------------------------------------------
(* The closure returned by If *)

\* Mutant of subscribed: no signal is read ahead of the selection.
subscribed_none(blocks) == {}

\* if_blocks.clone().skip(1).for_each(..): every ElseIf block but the first
\* block of the list has its signal read.
subscribed(blocks) == {i \in 2..Len(blocks) : is_else_if(blocks[i])}

\* Mutant of find_true: the last block that is true (rfind).
find_last_true(blocks, sigs) ==
  IF \E i \in DOMAIN blocks : is_true(blocks[i], sigs[i])
  THEN CHOOSE i \in DOMAIN blocks :
         /\ is_true(blocks[i], sigs[i])
         /\ \A j \in (i + 1)..Len(blocks) : ~is_true(blocks[j], sigs[j])
  ELSE 0

\* Iterator::find(|block| block.is_true()): the first block that is true,
\* 0 when there is none.
find_true(blocks, sigs) ==
  IF \E i \in DOMAIN blocks : is_true(blocks[i], sigs[i])
  THEN CHOOSE i \in DOMAIN blocks :
         /\ is_true(blocks[i], sigs[i])
         /\ \A j \in 1..(i - 1) : ~is_true(blocks[j], sigs[j])
  ELSE 0

\* The ElseIf signals find reads: those of the blocks up to the match.
find_reads(blocks, sigs) ==
  LET m == find_true(blocks, sigs)
      last == IF m = 0 THEN Len(blocks) ELSE m
  IN {i \in 1..last : is_else_if(blocks[i])}

\* Mutant of resolve: the iterator over the blocks is shared by all runs
\* of the closure, so next() yields the second block from the second run on.
resolve_resuming(blocks, top, sigs) ==
  IF top THEN (IF phase = "live" /\ Len(blocks) >= 2 THEN 2 ELSE 1)
  ELSE find_true(blocks, sigs)

\* Mutant of resolve: the test of the signal of If is inverted.
resolve_inverted(blocks, top, sigs) ==
  IF ~top THEN 1 ELSE find_true(blocks, sigs)

\* Mutant of resolve: the signal of If is not consulted.
resolve_without_signal(blocks, top, sigs) == find_true(blocks, sigs)

\* The view the closure returns: the first block when the signal is true,
\* else the block find returns, else the empty view.
resolve(blocks, top, sigs) ==
  IF top THEN 1 ELSE find_true(blocks, sigs)

\* Mutant of render: the children closure is called twice.
render_twice(block) == <<block, block>>

\* IfBlock::render: the children closure of the block is called, once.
render(block) == <<block>>

\* The children closures one run of the closure calls: those render calls
\* for the block it selects; signal.with(|_| {}) calls none.
rendered(blocks, top, sigs) ==
  LET block == resolve(blocks, top, sigs)
  IN IF block = 0 THEN <<>> ELSE render(block)

\* Mutant of tracked: the signal of If is read untracked.
tracked_else_if_only(blocks, top, sigs) ==
  subscribed(blocks) \cup (IF top THEN {} ELSE find_reads(blocks, sigs))

\* The signals read in one run of the closure.
tracked(blocks, top, sigs) ==
  {0} \cup subscribed(blocks)
      \cup (IF top THEN {} ELSE find_reads(blocks, sigs))

----------------------------------------------------------------------------
(* Actions of the If construct *)

InitIfVars ==
  /\ debug_assertions \in BOOLEAN
  /\ phase = "init"
  /\ if_blocks = <<>>
  /\ signal = FALSE
  /\ else_signal = <<>>
  /\ deps = {}
  /\ pending = FALSE
  /\ view = 0
  /\ panic = NoPanic
  /\ calls = <<>>
  /\ seen = <<>>
  /\ rerun = "no"
  /\ checks = 0

\* The body of the component If: collect the blocks, run the debug checks
\* (development builds only), return the closure, which the host then runs.
If(children, top, sigs) ==
  /\ phase = "init"
  /\ LET blocks == collect_if_blocks(children)
         failure == IF debug_assertions THEN run_debug_checks(blocks)
                    ELSE NoPanic
     IN /\ DOMAIN sigs = DOMAIN blocks
        /\ \A i \in DOMAIN blocks : ~is_else_if(blocks[i]) => ~sigs[i]
        /\ if_blocks' = blocks
        /\ signal' = top
        /\ else_signal' = sigs
        /\ panic' = failure
        /\ phase' = IF failure = NoPanic THEN "built" ELSE "failed"
        /\ pending' = (failure = NoPanic)
        /\ checks' = IF debug_assertions THEN checks + 1 ELSE checks
        /\ UNCHANGED <<debug_assertions, deps, view, calls, seen, rerun>>
  /\ UNCHANGED portalVars

\* One run of the closure (move || { .. }).
IfClosure ==
  /\ phase \in {"built", "live"}
  /\ IF signal /\ if_blocks = <<>>
     THEN \* if_blocks.next().unwrap() on an empty list
          /\ phase' = "panicked"
          /\ panic' = UnwrapNone
          /\ pending' = FALSE
          /\ calls' = <<>>
          /\ UNCHANGED <<view, deps>>
     ELSE /\ phase' = "live"
          /\ view' = resolve(if_blocks, signal, else_signal)
          /\ calls' = rendered(if_blocks, signal, else_signal)
          /\ deps' = tracked(if_blocks, signal, else_signal)
          /\ pending' = FALSE
          /\ UNCHANGED panic
  /\ seen' = <<signal, else_signal>>
  /\ rerun' = (IF phase # "live" THEN "no"
                ELSE IF seen = <<signal, else_signal>> THEN "same"
                ELSE "changed")
  /\ UNCHANGED <<debug_assertions, if_blocks, signal, else_signal, checks>>
  /\ UNCHANGED portalVars

\* The host notifies the effect of the closure when a signal it tracks is set.
notified(s) == pending \/ s \in deps

\* The value of the signal given to If changes.
SetSignal ==
  /\ phase \in {"built", "live"}
  /\ signal' = ~signal
  /\ pending' = notified(0)
  /\ UNCHANGED <<debug_assertions, phase, if_blocks, else_signal, deps, view,
                 panic, calls, seen, rerun, checks>>
  /\ UNCHANGED portalVars

\* The value of the signal of the ElseIf block i changes.
SetElseIfSignal(i) ==
  /\ phase \in {"built", "live"}
  /\ i \in DOMAIN if_blocks
  /\ is_else_if(if_blocks[i])
  /\ else_signal' = [else_signal EXCEPT ![i] = ~else_signal[i]]
  /\ pending' = notified(i)
  /\ UNCHANGED <<debug_assertions, phase, if_blocks, signal, deps, view,
                 panic, calls, seen, rerun, checks>>
  /\ UNCHANGED portalVars

\* The view! macro builds the construct, once, from any children and any
\* initial values of the signals.
IfComponent ==
  /\ phase = "init"
  /\ \E children \in ChildLists, top \in BOOLEAN,
        sigs \in UNION {[1..n -> BOOLEAN] : n \in 0..MaxChildren} :
       If(children, top, sigs)

NextIf ==
  \/ IfComponent
  \/ IfClosure
  \/ SetSignal
  \/ \E i \in 1..MaxChildren : SetElseIfSignal(i)

----------------------------------------------------------------------------
(* The portal registry *)

\* The types used as id (struct PortalA; struct PortalB;), each standing
\* for its TypeId.
TypeIds == {"PortalA", "PortalB"}

\* Option<Children>: 0 is None, c > 0 is Some of the children closure c.
None == 0

Children == 1..NumChildren

CONTEXT_NOT_FOUND_ERROR_MESSAGE ==
  "failed to find PortalCtx, make sure you are using <PortalProvider /> somewhere near the root of the app"

\* Mutant of use_context: a PortalCtx is taken to be there.
use_context_unchecked == TRUE

\* use_context::<PortalCtx>(cx) is Some: an ancestor has provided the
\* PortalCtx; expect(CONTEXT_NOT_FOUND_ERROR_MESSAGE) panics otherwise.
use_context == portal_ctx

\* Mutant of position: no entry is ever found.
position_none(entries, id) == 0

\* Mutant of position: the first entry, whatever its id.
position_first(entries, id) == IF entries = <<>> THEN 0 ELSE 1

\* Mutant of position: the last entry, whatever its id.
position_last(entries, id) == Len(entries)

\* portals.iter().position(|(type_id, _)| *type_id == id.type_id()),
\* counted from 1; 0 stands for None.
position(entries, id) ==
  IF \E i \in DOMAIN entries : entries[i].type_id = id
  THEN CHOOSE i \in DOMAIN entries :
         /\ entries[i].type_id = id
         /\ \A j \in 1..(i - 1) : entries[j].type_id # id
  ELSE 0

\* Mutant of push: the entry is put in front (insert(0, ..)).
push_front(entries, entry) == <<entry>> \o entries

\* Vec::push: the entry is appended.
push(entries, entry) == Append(entries, entry)

\* The message of the panic of a read of a signal whose scope is disposed.
SIGNAL_DISPOSED == "tried to access a signal that has been disposed"

\* The closures of unmounted sites are not scheduled: those sites stay as
\* they were.
mounted(sites, before, gone) ==
  [o \in DOMAIN sites |-> IF o \in gone THEN before[o] ELSE sites[o]]

\* Mutant of notify: the value is swapped and nobody is told
\* (set_untracked).
notify_untracked(sites, s) == sites

\* RwSignal::set: the value is swapped and every closure that read the
\* signal in its last run is scheduled to run again.
notify(sites, s) ==
  [o \in DOMAIN sites |->
     IF sites[o].children = s /\ sites[o].runs > 0
     THEN [sites[o] EXCEPT !.pending = TRUE]
     ELSE sites[o]]

InitPortalVars ==
  /\ portal_ctx = FALSE
  /\ portals = <<>>
  /\ signals = <<>>
  /\ outputs = <<>>
  /\ last_input = [id \in TypeIds |-> None]
  /\ portal_panic = NoPanic
  /\ disposed = {}
  /\ unmounted = {}

\* provide_context(cx, PortalCtx(store_value(cx, Default::default()))).
PortalProvider ==
  /\ ~portal_ctx
  /\ portal_panic = NoPanic
  /\ portal_ctx' = TRUE
  /\ portals' = <<>>
  /\ UNCHANGED <<signals, outputs, last_input, portal_panic>>
  /\ UNCHANGED <<disposed, unmounted>>
  /\ UNCHANGED ifVars

\* The body of the component PortalInput.
PortalInput(id, children) ==
  /\ portal_panic = NoPanic
  /\ IF ~use_context
     THEN /\ portal_panic' = CONTEXT_NOT_FOUND_ERROR_MESSAGE
          /\ UNCHANGED <<portal_ctx, portals, signals, outputs, last_input>>
     ELSE LET pos == position(portals, id) IN
          /\ IF pos # 0
             THEN /\ IF portals[pos].signal \in disposed
                     THEN UNCHANGED <<signals, outputs>>
                     ELSE /\ signals' = [signals EXCEPT
                                   ![portals[pos].signal].value = children]
                          /\ outputs' = mounted(
                                          notify(outputs, portals[pos].signal),
                                          outputs, unmounted)
                  /\ UNCHANGED portals
             ELSE /\ signals' = Append(signals,
                                  [value |-> children, owner |-> "input"])
                  /\ portals' = push(portals,
                                  [type_id |-> id, signal |-> Len(signals) + 1])
                  /\ UNCHANGED outputs
          /\ last_input' = [last_input EXCEPT ![id] = children]
          /\ UNCHANGED <<portal_ctx, portal_panic>>
  /\ UNCHANGED <<disposed, unmounted>>
  /\ UNCHANGED ifVars

\* The body of the component PortalOutput; the host then runs the closure
\* it returns.
PortalOutput(id) ==
  /\ portal_panic = NoPanic
  /\ Len(outputs) < MaxOutputs
  /\ IF ~use_context
     THEN /\ portal_panic' = CONTEXT_NOT_FOUND_ERROR_MESSAGE
          /\ UNCHANGED <<portal_ctx, portals, signals, outputs, last_input>>
     ELSE LET pos == position(portals, id)
              children_signal == IF pos # 0 THEN portals[pos].signal
                                 ELSE Len(signals) + 1
          IN
          /\ IF pos # 0
             THEN UNCHANGED <<signals, portals>>
             ELSE /\ signals' = Append(signals,
                                  [value |-> None, owner |-> "output"])
                  /\ portals' = push(portals,
                                  [type_id |-> id, signal |-> children_signal])
          /\ outputs' = Append(outputs,
                          [id |-> id, children |-> children_signal,
                           view |-> None, pending |-> TRUE, runs |-> 0])
          /\ UNCHANGED <<portal_ctx, last_input, portal_panic>>
  /\ UNCHANGED <<disposed, unmounted>>
  /\ UNCHANGED ifVars

\* One run of the closure of the PortalOutput site o: children.with(..)
\* renders the stored children, or nothing when the signal holds None.
OutputClosure(o) ==
  /\ portal_panic = NoPanic
  /\ o \in DOMAIN outputs
  /\ outputs[o].pending
  /\ o \notin unmounted
  /\ IF outputs[o].children \in disposed
     THEN /\ portal_panic' = SIGNAL_DISPOSED
          /\ UNCHANGED outputs
     ELSE /\ outputs' = [outputs EXCEPT
                   ![o].view = signals[outputs[o].children].value,
                   ![o].pending = FALSE,
                   ![o].runs = IF outputs[o].runs < 2 THEN outputs[o].runs + 1
                               ELSE 2]
          /\ UNCHANGED portal_panic
  /\ UNCHANGED <<portal_ctx, portals, signals, last_input>>
  /\ UNCHANGED <<disposed, unmounted>>
  /\ UNCHANGED ifVars

\* The PortalOutput site that called create_rw_signal for the signal s: the
\* first site that holds s.
creator(s) ==
  CHOOSE o \in DOMAIN outputs :
    /\ outputs[o].children = s
    /\ \A j \in 1..(o - 1) : outputs[j].children # s

\* The host unmounts the PortalInput site that created the signal s and
\* disposes its scope: the signals created with that scope go with it.
DisposeInput(s) ==
  /\ portal_panic = NoPanic
  /\ s \in DOMAIN signals
  /\ signals[s].owner = "input"
  /\ s \notin disposed
  /\ disposed' = disposed \cup {s}
  /\ UNCHANGED <<portal_ctx, portals, signals, outputs, last_input,
                 portal_panic, unmounted>>
  /\ UNCHANGED ifVars

\* The host unmounts the PortalOutput site o and disposes its scope: its
\* closure runs no more and the signal created with its scope, if any,
\* goes with it.
DisposeOutput(o) ==
  /\ portal_panic = NoPanic
  /\ o \in DOMAIN outputs
  /\ o \notin unmounted
  /\ unmounted' = unmounted \cup {o}
  /\ disposed' = disposed \cup
                   {s \in DOMAIN signals :
                      signals[s].owner = "output" /\ creator(s) = o}
  /\ outputs' = [outputs EXCEPT ![o].pending = FALSE]
  /\ UNCHANGED <<portal_ctx, portals, signals, last_input, portal_panic>>
  /\ UNCHANGED ifVars

NextPortal ==
  \/ PortalProvider
  \/ \E id \in TypeIds, children \in Children : PortalInput(id, children)
  \/ \E id \in TypeIds : PortalOutput(id)
  \/ \E o \in 1..MaxOutputs : OutputClosure(o)

\* The sites of a provider, and the host unmounting them.
NextPortalScopes ==
  \/ PortalProvider
  \/ \E id \in TypeIds, children \in Children : PortalInput(id, children)
  \/ \E id \in TypeIds : PortalOutput(id)
  \/ \E o \in 1..MaxOutputs : OutputClosure(o)
  \/ \E s \in 1..Cardinality(TypeIds) : DisposeInput(s)
  \/ \E o \in 1..MaxOutputs : DisposeOutput(o)

----------------------------------------------------------------------------
(* Specifications *)

\* One If construct; no portal site acts.
InitIf == InitIfVars /\ InitPortalVars

SpecIf == InitIf /\ [][NextIf]_vars

\* One provider and its portal sites; no If construct is built.
InitPortal == InitPortalVars /\ InitIfVars /\ ~debug_assertions

SpecPortal == InitPortal /\ [][NextPortal]_vars

\* One provider and its portal sites, which the host may unmount.
SpecPortalScopes == InitPortal /\ [][NextPortalScopes]_vars


----------------------------------------------------------------------------
(* Shapes of branch lists the claims speak of *)

\* Exactly one Then, and it is the first block.
OnePrimaryFirst(blocks) ==
  /\ blocks # <<>>
  /\ is_if(blocks[1])
  /\ \A i \in 2..Len(blocks) : ~is_if(blocks[i])

\* An Else stands before the last block.
ElseNotLast(blocks) == \E i \in 1..(Len(blocks) - 1) : is_else(blocks[i])

HasElse(blocks) == \E i \in DOMAIN blocks : is_else(blocks[i])

\* The BranchList invariant: one Then, first; at most one Else, last.
ValidList(blocks) == OnePrimaryFirst(blocks) /\ ~ElseNotLast(blocks)

\* Then first, then only ElseIf blocks, no Else.
NoElseList(blocks) ==
  /\ blocks # <<>>
  /\ is_if(blocks[1])
  /\ \A i \in 2..Len(blocks) : is_else_if(blocks[i])

AllElseIfFalse == \A i \in DOMAIN if_blocks : ~else_signal[i]

SomeElseIfTrue ==
  \E i \in DOMAIN if_blocks : is_else_if(if_blocks[i]) /\ else_signal[i]

\* A run of the closure that returns a view.
Evaluation == IfClosure /\ phase' = "live"

----------------------------------------------------------------------------
(* C1 *)

\* C1: for a branch list with exactly one Then, at index 0, an evaluation
\* renders the children of the Then if and only if the signal of If reads
\* true at that evaluation, whatever the ElseIf signals and whether or not
\* there is an Else.
C1_PrimaryIffSignal ==
  [][(Evaluation /\ OnePrimaryFirst(if_blocks))
       => ((view' # 0 /\ is_if(if_blocks[view'])) <=> signal)]_vars

\* The Then is shown, up to date, while an ElseIf signal is true and an Else
\* is present.
C1_Witness ==
  /\ phase = "live" /\ ~pending
  /\ ValidList(if_blocks) /\ HasElse(if_blocks)
  /\ signal /\ SomeElseIfTrue
  /\ view = 1

----------------------------------------------------------------------------
(* C2 *)

----------------------------------------------------------------------------
(* C3 *)

\* C3: for a valid branch list with an Else as last block, an evaluation
\* renders the children of the Else if and only if the signal of If and
\* every ElseIf signal read false at that evaluation.
C3_ElseIffAllFalse ==
  [][(Evaluation /\ ValidList(if_blocks) /\ HasElse(if_blocks))
       => ((view' # 0 /\ is_else(if_blocks[view']))
             <=> (~signal /\ AllElseIfFalse))]_vars

\* The Else is shown after an ElseIf before it read false.
C3_Witness ==
  /\ phase = "live" /\ ~pending
  /\ if_blocks = <<"If", "ElseIf", "Else">>
  /\ ~signal /\ ~else_signal[2]
  /\ view = 3

----------------------------------------------------------------------------
(* C4 *)

\* C4: an If whose branch list is a Then, any number of ElseIf and no Else
\* is built and evaluated without failure, in a development build as in a
\* production build, and its evaluation with the signal of If and every
\* ElseIf signal false yields the empty view.
C4_NoElseBuildsAndRendersEmpty ==
  (phase # "init" /\ NoElseList(if_blocks))
    => /\ phase \notin {"failed", "panicked"}
       /\ panic = NoPanic
       /\ (phase = "live" /\ ~pending /\ ~signal /\ AllElseIfFalse)
            => view = 0

----------------------------------------------------------------------------
(* C5 *)

\* A step that changes the value of the signal of some ElseIf block after
\* the closure has run.
ElseIfSignalChanges ==
  phase = "live" /\ \E i \in DOMAIN if_blocks : SetElseIfSignal(i)

----------------------------------------------------------------------------
(* C6 *)

\* C6 as stated: in a development build the construction of an If with two
\* Then blocks fails with the message of the duplicate-Then rule, and the
\* construction of an If with an Else that is not last fails with the
\* message of the Else-placement rule.
C6_RejectsNamingTheRule ==
  (debug_assertions /\ phase # "init")
    => /\ count_if(if_blocks) >= 2 => (phase = "failed" /\ panic = ShowDup)
       /\ ElseNotLast(if_blocks) => (phase = "failed" /\ panic = ElseLast)

\* C6 as amended: in a development build both kinds of list are rejected at
\* construction, and the failure names the first rule violated in the order
\* Then-first, duplicate Then, Else placement: a list with two Then blocks
\* fails naming the duplicate-Then rule when its first block is a Then, and
\* a list with an Else not last fails naming the Else-placement rule when
\* it has exactly one Then, as first block.
C6_RejectsNamingFirstViolatedRule ==
  (debug_assertions /\ phase # "init")
    => /\ count_if(if_blocks) >= 2
            => /\ phase = "failed"
               /\ panic = (IF is_if(if_blocks[1]) THEN ShowDup ELSE ShowFirst)
       /\ ElseNotLast(if_blocks)
            => /\ phase = "failed"
               /\ panic = (IF ~is_if(if_blocks[1]) THEN ShowFirst
                           ELSE IF ~OnePrimaryFirst(if_blocks) THEN ShowDup
                           ELSE ElseLast)

\* A development build has rejected a list with one Then, first, and an
\* Else before an ElseIf.
C6_Witness ==
  /\ debug_assertions
  /\ if_blocks = <<"If", "Else", "ElseIf">>
  /\ phase = "failed" /\ panic = ElseLast

----------------------------------------------------------------------------
(* C7 *)

\* C7: in a development build the construction of an If without any Then,
\* ElseIf or Else child fails with a message that names the violated rule,
\* the missing Then.
C7_EmptyListNamesMissingPrimary ==
  (debug_assertions /\ phase # "init" /\ if_blocks = <<>>)
    => (phase = "failed" /\ panic \in {ShowFirst, ShowDup})

----------------------------------------------------------------------------
(* C8 *)

\* C8: in a development build the construction of an If fails if and only
\* if its branch list violates the BranchList invariant (one Then, first;
\* at most one Else, last).
C8_ValidatorAcceptsExactlyValidLists ==
  (debug_assertions /\ phase # "init")
    => (ValidList(if_blocks) <=> (phase # "failed" /\ panic = NoPanic))

----------------------------------------------------------------------------
(* C9 *)

----------------------------------------------------------------------------
(* C10 *)

----------------------------------------------------------------------------
(* C11 *)

\* A PortalInput or a PortalOutput is constructed.
SiteConstructed ==
  \/ \E id \in TypeIds, children \in Children : PortalInput(id, children)
  \/ \E id \in TypeIds : PortalOutput(id)

\* C11: the construction of a PortalInput or of a PortalOutput with no
\* PortalProvider above it fails at once with the context-not-found
\* message, and leaves the registry, the signals and the output sites as
\* they were: without a provider there is no registry entry, no signal and
\* no output site.
C11_NoProviderFailsAndCreatesNothing ==
  [][/\ (SiteConstructed /\ ~portal_ctx)
          => /\ portal_panic' = CONTEXT_NOT_FOUND_ERROR_MESSAGE
             /\ ~portal_ctx'
             /\ portals' = portals /\ signals' = signals
             /\ outputs' = outputs
     /\ ~portal_ctx'
          => (portals' = <<>> /\ signals' = <<>> /\ outputs' = <<>>)]_vars

\* A site was constructed without a provider: the failure is recorded and
\* nothing exists.
C11_Witness ==
  /\ ~portal_ctx
  /\ portal_panic = CONTEXT_NOT_FOUND_ERROR_MESSAGE
  /\ portals = <<>> /\ signals = <<>> /\ outputs = <<>>

----------------------------------------------------------------------------
(* C12 *)

\* The registry entries of an identifier.
EntriesOf(id) == {i \in DOMAIN portals : portals[i].type_id = id}

\* The PortalOutput sites of an identifier.
OutputsOf(id) == {o \in DOMAIN outputs : outputs[o].id = id}

\* Every PortalOutput site of the identifier has run and no run of its
\* closure is scheduled.
Settled(id) ==
  \A o \in OutputsOf(id) : outputs[o].runs > 0 /\ ~outputs[o].pending

\* C12: whatever the order in which the PortalInput and the PortalOutput
\* sites of an identifier were constructed, once a PortalInput of it exists
\* and every scheduled run of its output closures is done, the registry
\* holds one entry for the identifier, its signal holds the children of the
\* input, and every PortalOutput site of the identifier shows them.
C12_OrderOfSitesIrrelevant ==
  \A id \in TypeIds :
    (last_input[id] # None /\ Settled(id))
      => /\ Cardinality(EntriesOf(id)) = 1
         /\ \A i \in EntriesOf(id) :
              signals[portals[i].signal].value = last_input[id]
         /\ \A o \in OutputsOf(id) : outputs[o].view = last_input[id]

\* Both orders in one state: the slot of PortalA was made by its
\* PortalInput, the slot of PortalB by its PortalOutput, and the output
\* site of each shows the children of its input.
C12_Witness ==
  /\ \A id \in TypeIds : last_input[id] # None /\ Settled(id)
  /\ \E o \in OutputsOf("PortalA") :
       /\ signals[outputs[o].children].owner = "input"
       /\ outputs[o].view = last_input["PortalA"]
  /\ \E o \in OutputsOf("PortalB") :
       /\ signals[outputs[o].children].owner = "output"
       /\ outputs[o].view = last_input["PortalB"]

----------------------------------------------------------------------------
(* C13 *)

----------------------------------------------------------------------------
(* C14 *)

\* Number of calls of the children closure of block i in the latest run.
CallsOf(i) == Cardinality({k \in DOMAIN calls : calls[k] = i})

\* C14: a run of the closure calls the children closure of the block it
\* renders exactly once and the children closure of no other block, and
\* calls none when it renders the empty view; building the If calls none.
C14_OnlySelectedProducerOnce ==
  [][/\ Evaluation
          => /\ Len(calls') = (IF view' = 0 THEN 0 ELSE 1)
             /\ \A k \in DOMAIN calls' : calls'[k] = view'
     /\ phase' \in {"init", "built", "failed"} => calls' = <<>>]_vars

\* With the signals of both ElseIf blocks true and an Else present, the
\* run has called the children closure of the first ElseIf only.
C14_Witness ==
  /\ phase = "live" /\ ~pending
  /\ if_blocks = <<"If", "ElseIf", "ElseIf", "Else">>
  /\ ~signal /\ else_signal[2] /\ else_signal[3]
  /\ view = 2
  /\ CallsOf(2) = 1
  /\ \A i \in {1, 3, 4} : CallsOf(i) = 0

----------------------------------------------------------------------------
(* C15 *)

----------------------------------------------------------------------------
(* C16 *)

\* The selection rule on the current values of the signals: the Then when
\* the signal of If is true, else the first ElseIf whose signal is true,
\* else the Else when there is one, else the empty view.
Selected ==
  IF signal
  THEN CHOOSE i \in DOMAIN if_blocks : is_if(if_blocks[i])
  ELSE IF SomeElseIfTrue
  THEN CHOOSE i \in DOMAIN if_blocks :
         /\ is_else_if(if_blocks[i]) /\ else_signal[i]
         /\ \A j \in 1..(i - 1) : ~else_signal[j]
  ELSE IF HasElse(if_blocks)
  THEN CHOOSE i \in DOMAIN if_blocks : is_else(if_blocks[i])
  ELSE 0

----------------------------------------------------------------------------
(* C17 *)

\* C17: under one provider, whatever PortalInput and PortalOutput sites are
\* constructed, every step leaves each registry entry at its place with its
\* identifier and its signal, entries are only added at the end, no signal
\* goes away, and the value a signal holds changes only in the construction
\* of a PortalInput.
C17_RegistryOnlyGrows ==
  [][/\ Len(portals') >= Len(portals)
     /\ \A i \in DOMAIN portals : portals'[i] = portals[i]
     /\ \A s \in DOMAIN signals :
          /\ s \in DOMAIN signals'
          /\ signals'[s].value # signals[s].value
               => \E id \in TypeIds, children \in Children :
                    PortalInput(id, children)]_vars

\* The registry holds PortalA, then PortalB; the entry of PortalA was made
\* by a PortalOutput with None and now holds the children a later
\* PortalInput has set, the entry of PortalB was made by a PortalInput.
C17_Witness ==
  /\ Len(portals) = 2
  /\ portals[1].type_id = "PortalA" /\ portals[2].type_id = "PortalB"
  /\ signals[portals[1].signal].owner = "output"
  /\ signals[portals[1].signal].value # None
  /\ signals[portals[2].signal].owner = "input"

----------------------------------------------------------------------------
(* C18 *)

\* The signal of the registry entry of an identifier, 0 when it has none.
SlotOf(id) ==
  IF EntriesOf(id) = {} THEN 0
  ELSE portals[CHOOSE i \in EntriesOf(id) : TRUE].signal

\* C18: after every step the registry holds at most one entry per
\* identifier, no two entries hold the same signal, and every PortalOutput
\* site reads the signal of the entry of its identifier.  A PortalInput or
\* PortalOutput of an identifier that has an entry appends no entry and
\* creates no signal; a PortalInput writes its children to the signal of
\* its identifier and leaves the signal of every other identifier as it was.
C18_OneSlotPerIdentifier ==
  [][/\ \A id \in TypeIds : Cardinality(EntriesOf(id))' <= 1
     /\ \A i, j \in DOMAIN portals' :
          portals'[i].signal = portals'[j].signal => i = j
     /\ \A id \in TypeIds, o \in DOMAIN outputs' :
          outputs'[o].id = id => outputs'[o].children = SlotOf(id)'
     /\ \A id \in TypeIds :
          /\ (/\ EntriesOf(id) # {}
              /\ \/ PortalOutput(id)
                 \/ \E children \in Children : PortalInput(id, children))
               => /\ portals' = portals
                  /\ Len(signals') = Len(signals)
          /\ \A children \in Children :
               (PortalInput(id, children) /\ use_context)
                 => /\ signals'[SlotOf(id)'].value = children
                    /\ \A other \in TypeIds \ {id} :
                         SlotOf(other) # 0
                           => signals'[SlotOf(other)] = signals[SlotOf(other)]
    ]_vars

\* Two PortalOutput sites of PortalA read the one signal of PortalA, which
\* the first of them created with None and a PortalInput of PortalA has
\* written since; PortalB has its own entry with other children, and no
\* third signal exists.
C18_Witness ==
  /\ Len(outputs) = 2 /\ Len(portals) = 2 /\ Len(signals) = 2
  /\ outputs[1].id = "PortalA" /\ outputs[2].id = "PortalA"
  /\ outputs[1].children = SlotOf("PortalA")
  /\ outputs[2].children = SlotOf("PortalA")
  /\ signals[SlotOf("PortalA")].owner = "output"
  /\ signals[SlotOf("PortalA")].value = 1
  /\ SlotOf("PortalB") # 0
  /\ signals[SlotOf("PortalB")].value = 2

----------------------------------------------------------------------------
(* C19 *)

\* C19: while the provider stands, the signal of every registry entry
\* stays writable and readable, also after the host has unmounted the site
\* that created it: the signal holds the children of the latest PortalInput
\* of its identifier, and no closure of a PortalOutput fails reading it.
C19_SlotLivesWithProvider ==
  portal_ctx =>
    /\ portal_panic # SIGNAL_DISPOSED
    /\ \A id \in TypeIds :
         (SlotOf(id) # 0 /\ last_input[id] # None)
           => signals[SlotOf(id)].value = last_input[id]

----------------------------------------------------------------------------
(* C20 *)

\* The messages of the assertions of run_debug_checks.
StructuralFailures == {ShowFirst, ShowDup, ElseLast, ElseDup}

\* C20: run_debug_checks runs in the step that constructs the If, once in
\* a development build, and in no other step; a run of the closure runs no
\* check and never ends with the message of a check.  In a development
\* build the construction of an invalid branch list fails with nothing
\* rendered, no branch content called and no run of the closure scheduled,
\* and every run of the closure of a construct that was built returns a
\* view without failure, whatever the signals read.
C20_ChecksOnceAtConstruction ==
  [][/\ checks' = (IF debug_assertions /\ phase = "init" /\ phase' # "init"
                   THEN 1 ELSE checks)
     /\ (phase = "init" /\ phase' # "init")
          => /\ checks = 0
             /\ view' = 0 /\ calls' = <<>>
             /\ (debug_assertions /\ ~ValidList(if_blocks'))
                  => phase' = "failed" /\ ~pending'
     /\ IfClosure
          => /\ checks' = checks
             /\ panic' \notin StructuralFailures
             /\ debug_assertions => phase' = "live" /\ panic' = NoPanic
     /\ phase \in {"built", "live"}
          => /\ panic' \notin StructuralFailures
             /\ phase' # "failed"
    ]_vars

\* A development build: the checks have run once, the closure has run
\* again since its first run and found the signals changed, and no failure
\* has happened.
C20_Witness ==
  /\ debug_assertions
  /\ phase = "live" /\ rerun = "changed"
  /\ checks = 1
  /\ panic = NoPanic
  /\ if_blocks = <<"If", "ElseIf", "Else">>
  /\ view = 2

=============================================================================
